---- MODULE Spec2Model ----
(***************************************************************************)
(* The live component playground of src/components/SandboxIDE.tsx: the     *)
(* editor buffer, the debounced transpile/evaluate pipeline, the preview   *)
(* host (MiniBrowser) with its mount point and its ErrorBoundary, the      *)
(* viewport controls and the history list.                                 *)
(*                                                                         *)
(* JavaScript values are records with a tag field t.  A function value is  *)
(* [t |-> "function", returns |-> what a call yields].  Source texts are   *)
(* the strings of Sources; what Babel and the script engine do with each   *)
(* is tabulated in transpileCode and RunScript.  Positions in the history  *)
(* list are counted from 1.                                                *)
(***************************************************************************)
EXTENDS Integers, Sequences, FiniteSets, TLC

\* ---------------------------------------------------------------- bounds
MaxHistory == 3      \* longest history list explored
ClockStep == 250     \* milliseconds that pass in one Tick

\* ------------------------------------------------------ program constants
DEBOUNCE_DELAY == 500
DefaultHeight == 400   \* height: '400px' of the output area

Devices == {"iPhone SE", "iPhone XR", "iPad"}

MOBILE_SIZES ==
    [d \in Devices |->
        CASE d = "iPhone SE" -> [width |-> 375, height |-> 667]
          [] d = "iPhone XR" -> [width |-> 414, height |-> 896]
          [] d = "iPad"      -> [width |-> 768, height |-> 1024]]

\* ------------------------------------------------------------ JS values
Undefined == [t |-> "undefined"]
Null == [t |-> "null"]

\* a React element produced by user code
UserNode == [t |-> "element", tag |-> "p"]

\* the element the error-rendering producer returns (lines 45-48)
EvaluationErrorBox(message) ==
    [t |-> "element", tag |-> "div", title |-> "Evaluation Error:", message |-> message]

\* the element ErrorBoundary returns when its error state is set (lines 68-71)
RuntimeErrorBox(message) ==
    [t |-> "element", tag |-> "div", title |-> "Runtime Error:", message |-> message]

Fn(result) == [t |-> "function", returns |-> result]

\* useState initialiser of Component: () => null
InitialComponent == Fn(Null)

EmptyExports == [t |-> "object", default |-> Undefined]

\* React.isValidElement
isValidElement(v) == v.t = "element"

\* JavaScript truthiness of the values used here
Truthy(v) == v.t \notin {"undefined", "null"}

\* property read v.default
DefaultOf(v) == IF "default" \in DOMAIN v THEN v.default ELSE Undefined

\* ------------------------------------------------------------- sources
SrcEmpty == ""
SrcMalformed == "<div"
SrcThrows == "boom()"
SrcElement == "module.exports.default = <p/>"
SrcFunction == "module.exports = () => <p/>"
SrcNullDefault == "module.exports.default = null"

Sources == {SrcEmpty, SrcMalformed, SrcThrows, SrcElement, SrcFunction, SrcNullDefault}

\* Babel.transform(...).code: the JSX rewritten into calls, or a thrown SyntaxError
transpileCode(code) ==
    CASE code = SrcMalformed -> [threw |-> TRUE, message |-> "Unterminated JSX contents"]
      [] code = SrcElement ->
            [threw |-> FALSE, code |-> "module.exports.default = React.createElement('p')"]
      [] code = SrcFunction ->
            [threw |-> FALSE, code |-> "module.exports = () => React.createElement('p')"]
      [] OTHER -> [threw |-> FALSE, code |-> code]

\* The body of the wrapped script between the shim and the return statement:
\* what running the transpiled text leaves in module.exports, or the throw.
RunScript(js) ==
    CASE js = "boom()" -> [threw |-> TRUE, message |-> "boom is not defined"]
      [] js = "module.exports.default = React.createElement('p')" ->
            [threw |-> FALSE, exports |-> [t |-> "object", default |-> UserNode]]
      [] js = "module.exports = () => React.createElement('p')" ->
            [threw |-> FALSE, exports |-> Fn(UserNode)]
      [] js = "module.exports.default = null" ->
            [threw |-> FALSE, exports |-> [t |-> "object", default |-> Null]]
      [] OTHER -> [threw |-> FALSE, exports |-> EmptyExports]

\* the default slot without the fallback to the container
ModuleResultDefaultOnly(exports) == DefaultOf(exports)

\* return module.exports.default || module.exports;
ModuleResult(exports) ==
    IF Truthy(DefaultOf(exports)) THEN DefaultOf(exports) ELSE exports

\* React.isValidElement(result) ? () => result : result
Classify(result) == IF isValidElement(result) THEN Fn(result) ELSE result

\* the catch branch: a producer of the Evaluation Error box
ErrorProducer(message) == Fn(EvaluationErrorBox(message))

\* evaluateCode: [threw |-> TRUE, ...] when the exception leaves the function,
\* otherwise the value it returns.
evaluateCode(code) ==
    LET t == transpileCode(code) IN
    IF t.threw THEN [threw |-> TRUE, message |-> t.message]
    ELSE LET r == RunScript(t.code) IN
         IF r.threw THEN [threw |-> FALSE, value |-> ErrorProducer(r.message)]
         ELSE [threw |-> FALSE, value |-> Classify(ModuleResult(r.exports))]

\* ------------------------------------------------------- component names
\* what the user may type into the name field, as character sequences
Names == {<<>>, <<" ">>, <<" ", "F">>}

RECURSIVE TrimStart(_)
TrimStart(s) == IF s # <<>> /\ Head(s) = " " THEN TrimStart(Tail(s)) ELSE s

RECURSIVE TrimEnd(_)
TrimEnd(s) ==
    IF s # <<>> /\ s[Len(s)] = " " THEN TrimEnd(SubSeq(s, 1, Len(s) - 1)) ELSE s

\* String.prototype.trim
Trim(s) == TrimEnd(TrimStart(s))

Min(a, b) == IF a < b THEN a ELSE b
Max(a, b) == IF a > b THEN a ELSE b

\* ----------------------------------------------------------------- state
VARIABLES
    phase,          \* "initial" before the first commit, "mounted", "removed"
    code,           \* Sandbox state: the editor buffer
    Component,      \* Sandbox state: the producer handed to MiniBrowser
    history,        \* Sandbox state: sequence of [name, code]
    componentName,  \* CodeEditor state: the name field
    isFullscreen,   \* MiniBrowser state
    mobileSize,     \* MiniBrowser state: Null or a size of MOBILE_SIZES
    selectValue,    \* value of the device <select> element
    preview,        \* MiniBrowser's mount point and what is rendered in it
    debounce,       \* the debounced function's timer and pending arguments
    evaluations,    \* invocations of the debounced callback since the buffer last changed
    burst,          \* buffer changes made while the current or latest timer was armed
    lastOp          \* the handler that ran last

vars == <<phase, code, Component, history, componentName, isFullscreen, mobileSize,
          selectValue, preview, debounce, evaluations, burst, lastOp>>

NoRoot == 0
NoError == Null
NoArgs == <<>>                      \* lastArgs of the debounced function is undefined
Nothing == [t |-> "none"]           \* no render call has reached the root
Blank == [t |-> "blank"]

ErrorObject(message) == [t |-> "error", message |-> message]

\* errors thrown by the code of a rendered user component outside rendering
\* (one of its event handlers or timers)
PageErrors == {ErrorObject("handler failed")}

\* ---------------------------------------------------------- preview host
\* rootRef: rootRef.current (NoRoot for null); liveRoots: roots created and not
\* unmounted; created: roots created so far; boundary: ErrorBoundary is mounted
\* in the root (its listener is attached); error: ErrorBoundary's state;
\* rendered: the Component of the last render call; staleRender: a render call
\* reached a root that had been unmounted.
InitialPreview ==
    [rootRef |-> NoRoot, liveRoots |-> {}, created |-> 0, boundary |-> FALSE,
     error |-> NoError, rendered |-> Nothing, staleRender |-> FALSE]

\* <Component /> renders without throwing only when Component is callable
CanRender(C) == C.t = "function"

\* first effect of MiniBrowser: create the root when rootRef is empty
\* (containerRef.current is set once the host has committed)
CreateRootEffect(p) ==
    IF p.rootRef = NoRoot
    THEN [p EXCEPT !.rootRef = p.created + 1,
                   !.created = p.created + 1,
                   !.liveRoots = p.liveRoots \cup {p.created + 1}]
    ELSE p

\* a cleanup that unmounts the root and leaves rootRef pointing at it
CleanupEffectKeepRef(p) ==
    IF p.rootRef # NoRoot
    THEN [p EXCEPT !.liveRoots = p.liveRoots \ {p.rootRef},
                   !.boundary = FALSE,
                   !.error = NoError,
                   !.rendered = Nothing]
    ELSE p

\* cleanup of the first effect: unmount the root and clear rootRef
CleanupEffect(p) ==
    IF p.rootRef # NoRoot
    THEN [p EXCEPT !.liveRoots = p.liveRoots \ {p.rootRef},
                   !.rootRef = NoRoot,
                   !.boundary = FALSE,
                   !.error = NoError,
                   !.rendered = Nothing]
    ELSE p

\* a render that keeps an Evaluation Error box once one is in the root
RootRenderLatching(p, C) ==
    IF p.rootRef \notin p.liveRoots THEN [p EXCEPT !.staleRender = TRUE]
    ELSE IF p.boundary /\ p.error # NoError THEN [p EXCEPT !.rendered = C]
    ELSE IF p.boundary /\ p.rendered.returns.t = "element"
                       /\ "title" \in DOMAIN p.rendered.returns THEN p
    ELSE IF CanRender(C) THEN [p EXCEPT !.boundary = TRUE, !.rendered = C]
    ELSE [p EXCEPT !.boundary = FALSE, !.error = NoError, !.rendered = C]

\* a render that resets the error of ErrorBoundary when the producer can render
RootRenderResetting(p, C) ==
    IF p.rootRef \notin p.liveRoots THEN [p EXCEPT !.staleRender = TRUE]
    ELSE IF CanRender(C) THEN [p EXCEPT !.boundary = TRUE, !.error = NoError, !.rendered = C]
    ELSE [p EXCEPT !.boundary = FALSE, !.error = NoError, !.rendered = C]

\* root.render(<ErrorBoundary><Suspense><Component/></Suspense></ErrorBoundary>).
\* An ErrorBoundary that is already mounted keeps its state; while its error is
\* set it does not render its children.  ErrorBoundary is a function component,
\* so an exception thrown while rendering <Component /> is caught by nothing:
\* React unmounts the whole tree of the root, ErrorBoundary included.
RootRender(p, C) ==
    IF p.rootRef \notin p.liveRoots THEN [p EXCEPT !.staleRender = TRUE]
    ELSE IF p.boundary /\ p.error # NoError THEN [p EXCEPT !.rendered = C]
    ELSE IF CanRender(C) THEN [p EXCEPT !.boundary = TRUE, !.rendered = C]
    ELSE [p EXCEPT !.boundary = FALSE, !.error = NoError, !.rendered = C]

\* second effect of MiniBrowser, run when Component changes
RenderEffect(p, C) == IF p.rootRef # NoRoot THEN RootRender(p, C) ELSE p

\* ErrorBoundary's listener on window: setError(event.error)
ErrorEvent(p, e) == IF p.boundary THEN [p EXCEPT !.error = e] ELSE p

\* what the preview container shows
Display ==
    IF ~preview.boundary THEN Blank
    ELSE IF preview.error # NoError THEN RuntimeErrorBox(preview.error.message)
    ELSE preview.rendered.returns

\* a spread in which the base properties win
SpreadUnder(base, obj) ==
    IF obj = Null THEN base
    ELSE [k \in DOMAIN base \cup DOMAIN obj |-> IF k \in DOMAIN base THEN base[k] ELSE obj[k]]

\* style of the output area: { height: '400px', overflowY: 'auto', ...mobileSize }
Spread(base, obj) ==
    IF obj = Null THEN base
    ELSE [k \in DOMAIN base \cup DOMAIN obj |-> IF k \in DOMAIN obj THEN obj[k] ELSE base[k]]

ViewportStyle == Spread([height |-> DefaultHeight], mobileSize)

\* ------------------------------------------------------------- debounce
\* lodash debounce(func, DEBOUNCE_DELAY): timerId is set while a timer is armed,
\* wait is the time until it is due, lastArgs the arguments of the latest call,
\* sinceCall the time since that call (capped at DEBOUNCE_DELAY).
InitialDebounce ==
    [timerId |-> FALSE, wait |-> 0, lastArgs |-> NoArgs, sinceCall |-> DEBOUNCE_DELAY]

\* a call debouncedCodeEvaluation(arg): remember arg, restart the delay
Debounced(d, arg) ==
    [d EXCEPT !.lastArgs = <<arg>>,
              !.sinceCall = 0,
              !.timerId = TRUE,
              !.wait = IF d.timerId THEN d.wait ELSE DEBOUNCE_DELAY]

\* a timer that invokes whenever it is due
shouldInvokeWhenDue(d) == TRUE

\* the delay has passed since the latest call
shouldInvoke(d) == d.sinceCall >= DEBOUNCE_DELAY

\* ------------------------------------------------------------------ init
Init ==
    /\ phase = "initial"
    /\ code = SrcEmpty
    /\ Component = InitialComponent
    /\ history = <<>>
    /\ componentName = <<>>
    /\ isFullscreen = FALSE
    /\ mobileSize = Null
    /\ selectValue = ""
    /\ preview = InitialPreview
    /\ debounce = InitialDebounce
    /\ evaluations = 0
    /\ burst = 0
    /\ lastOp = "init"

\* --------------------------------------------------------------- actions
\* First commit of <React.StrictMode><App/></React.StrictMode>: the effects of
\* MiniBrowser and Sandbox run; a development build (strict) then runs every
\* cleanup and every effect a second time.
Mount(strict) ==
    /\ phase = "initial"
    /\ LET p1 == RenderEffect(CreateRootEffect(preview), Component)
           d1 == Debounced(debounce, code)
       IN  /\ preview' = IF strict
                         THEN RenderEffect(CreateRootEffect(CleanupEffect(p1)), Component)
                         ELSE p1
           /\ debounce' = IF strict THEN Debounced(d1, code) ELSE d1
    /\ phase' = "mounted"
    /\ lastOp' = "mount"
    /\ UNCHANGED <<code, Component, history, componentName, isFullscreen, mobileSize,
                   selectValue, evaluations, burst>>

\* setCode(c) with a new value, followed by the effect on [code]
SetCode(c) ==
    /\ code' = c
    /\ debounce' = Debounced(debounce, c)
    /\ evaluations' = 0
    /\ burst' = IF debounce.timerId THEN Min(burst + 1, 2) ELSE 1
    /\ UNCHANGED <<phase, Component, history, componentName, isFullscreen, mobileSize,
                   selectValue, preview>>

\* textarea onChange: the event fires only when the text differs
onChange(c) ==
    /\ phase = "mounted"
    /\ c # code
    /\ SetCode(c)
    /\ lastOp' = "change"

\* Sidebar Load button of entry i; setting the state to the value it already
\* has re-renders nothing and runs no effect
onSelect(i) ==
    /\ phase = "mounted"
    /\ i \in 1..Len(history)
    /\ history[i].code # code
    /\ SetCode(history[i].code)
    /\ lastOp' = "load"

\* time passes
Tick ==
    /\ phase # "initial"
    /\ debounce.sinceCall < DEBOUNCE_DELAY \/ (debounce.timerId /\ debounce.wait > 0)
    /\ debounce' = [debounce EXCEPT !.sinceCall = Min(@ + ClockStep, DEBOUNCE_DELAY),
                                    !.wait = Max(@ - ClockStep, 0)]
    /\ UNCHANGED <<phase, code, Component, history, componentName, isFullscreen,
                   mobileSize, selectValue, preview, evaluations, burst, lastOp>>

\* the timer of the debounced function is due
timerExpired ==
    /\ phase # "initial"
    /\ debounce.timerId
    /\ debounce.wait = 0
    /\ IF ~shouldInvoke(debounce)
       THEN /\ debounce' = [debounce EXCEPT !.wait = DEBOUNCE_DELAY - debounce.sinceCall]
            /\ lastOp' = "rearm"
            /\ UNCHANGED <<Component, preview, evaluations>>
       ELSE /\ debounce' = [debounce EXCEPT !.timerId = FALSE, !.lastArgs = NoArgs]
            /\ IF debounce.lastArgs = NoArgs
               THEN /\ lastOp' = "idle"
                    /\ UNCHANGED <<Component, preview, evaluations>>
               ELSE LET r == evaluateCode(debounce.lastArgs[1]) IN
                    /\ lastOp' = "evaluate"
                    /\ evaluations' = Min(evaluations + 1, 2)
                    /\ IF r.threw
                       THEN \* the exception leaves the timer callback: window 'error' event
                            /\ preview' = ErrorEvent(preview, ErrorObject(r.message))
                            /\ UNCHANGED Component
                       ELSE IF phase = "mounted"
                       THEN /\ Component' = r.value
                            /\ preview' = IF r.value # Component
                                          THEN RenderEffect(preview, r.value)
                                          ELSE preview
                       ELSE \* setComponent on a removed Sandbox changes nothing
                            UNCHANGED <<Component, preview>>
    /\ UNCHANGED <<phase, code, history, componentName, isFullscreen, mobileSize,
                   selectValue, burst>>

\* window 'error' event raised by the code of the rendered user component
\* while ErrorBoundary listens
errorHandler(e) ==
    /\ phase = "mounted"
    /\ preview.boundary
    /\ preview.rendered = Fn(UserNode)
    /\ preview.error # e
    /\ preview' = ErrorEvent(preview, e)
    /\ lastOp' = "error"
    /\ UNCHANGED <<phase, code, Component, history, componentName, isFullscreen,
                   mobileSize, selectValue, debounce, evaluations, burst>>

\* the Sandbox is removed from the page: MiniBrowser's cleanup runs
Unmount ==
    /\ phase = "mounted"
    /\ phase' = "removed"
    /\ preview' = CleanupEffect(preview)
    /\ lastOp' = "unmount"
    /\ UNCHANGED <<code, Component, history, componentName, isFullscreen, mobileSize,
                   selectValue, debounce, evaluations, burst>>

\* Fullscreen button
toggleFullscreen ==
    /\ phase = "mounted"
    /\ isFullscreen' = ~isFullscreen
    /\ lastOp' = "fullscreen"
    /\ UNCHANGED <<phase, code, Component, history, componentName, mobileSize,
                   selectValue, preview, debounce, evaluations, burst>>

\* MOBILE_SIZES[e.target.value] || null
SizeFor(v) == IF v \in DOMAIN MOBILE_SIZES THEN MOBILE_SIZES[v] ELSE Null

\* device <select> onChange
selectDevice(v) ==
    /\ phase = "mounted"
    /\ v # selectValue
    /\ selectValue' = v
    /\ mobileSize' = SizeFor(v)
    /\ lastOp' = "select"
    /\ UNCHANGED <<phase, code, Component, history, componentName, isFullscreen,
                   preview, debounce, evaluations, burst>>

\* name field onChange
setComponentName(n) ==
    /\ phase = "mounted"
    /\ n # componentName
    /\ componentName' = n
    /\ lastOp' = "name"
    /\ UNCHANGED <<phase, code, Component, history, isFullscreen, mobileSize,
                   selectValue, preview, debounce, evaluations, burst>>

\* a save that replaces the entries of the same name
AppendedByName(prev, name, source) ==
    Append(SelectSeq(prev, LAMBDA e : e.name # name), [name |-> name, code |-> source])

\* onSave: setHistory(prev => [...prev, { name, code }])
Appended(prev, name, source) == Append(prev, [name |-> name, code |-> source])

\* Save button
handleSave ==
    /\ phase = "mounted"
    /\ Len(history) < MaxHistory
    /\ IF Trim(componentName) # <<>>
       THEN /\ history' = Appended(history, componentName, code)
            /\ componentName' = <<>>
            /\ lastOp' = "save"
       ELSE \* alert(...)
            /\ lastOp' = "alert"
            /\ UNCHANGED <<history, componentName>>
    /\ UNCHANGED <<phase, code, Component, isFullscreen, mobileSize, selectValue,
                   preview, debounce, evaluations, burst>>

\* a filter that compares entries instead of positions
RECURSIVE FilterEqual(_, _, _)
FilterEqual(prev, index, i) ==
    IF i > Len(prev) THEN <<>>
    ELSE IF prev[i] # prev[index] THEN <<prev[i]>> \o FilterEqual(prev, index, i + 1)
    ELSE FilterEqual(prev, index, i + 1)

\* prev.filter((_, i) => i !== index), positions counted from 1
RECURSIVE FilterIndex(_, _, _)
FilterIndex(prev, index, i) ==
    IF i > Len(prev) THEN <<>>
    ELSE IF i # index THEN <<prev[i]>> \o FilterIndex(prev, index, i + 1)
    ELSE FilterIndex(prev, index, i + 1)

\* Sidebar Delete button of entry i
onDelete(i) ==
    /\ phase = "mounted"
    /\ i \in 1..Len(history)
    /\ history' = FilterIndex(history, i, 1)
    /\ lastOp' = "delete"
    /\ UNCHANGED <<phase, code, Component, componentName, isFullscreen, mobileSize,
                   selectValue, preview, debounce, evaluations, burst>>

\* ---------------------------------------------------------- specifications
\* sources typed while the history list is exercised
HistorySources == {SrcEmpty, SrcThrows, SrcElement}

\* the pipeline, the preview host and the viewport controls
Next ==
    \/ \E strict \in BOOLEAN : Mount(strict)
    \/ \E c \in Sources : onChange(c)
    \/ Tick
    \/ timerExpired
    \/ \E e \in PageErrors : errorHandler(e)
    \/ Unmount
    \/ toggleFullscreen
    \/ \E v \in Devices \cup {""} : selectDevice(v)

Spec == Init /\ [][Next]_vars

\* the editor, the history list and the pipeline
NextHistory ==
    \/ \E strict \in BOOLEAN : Mount(strict)
    \/ \E c \in HistorySources : onChange(c)
    \/ \E i \in 1..MaxHistory : onSelect(i)
    \/ \E n \in Names : setComponentName(n)
    \/ handleSave
    \/ \E i \in 1..MaxHistory : onDelete(i)
    \/ Tick
    \/ timerExpired

SpecHistory == Init /\ [][NextHistory]_vars

\* ------------------------------------------------------------ properties
\* the step in which the debounced callback runs on the source src
Invokes(src) ==
    /\ timerExpired
    /\ shouldInvoke(debounce)
    /\ debounce.lastArgs = <<src>>

\* the source transforms and executes without throwing
Succeeds(src) ==
    /\ ~transpileCode(src).threw
    /\ ~RunScript(transpileCode(src).code).threw

ExportsOf(src) == RunScript(transpileCode(src).code).exports

Shows(title) == "title" \in DOMAIN Display /\ Display.title = title

\* C1: when the debounced evaluation runs on a buffer that fails to transform,
\* the producer becomes the error-rendering producer labelled as an evaluation
\* error, the preview shows that message, and buffer and history are unchanged.
C1_TransformFailureCaught ==
    [][\A src \in Sources :
          (phase = "mounted" /\ Invokes(src) /\ transpileCode(src).threw)
          => /\ Component' = ErrorProducer(transpileCode(src).message)
             /\ Display' = EvaluationErrorBox(transpileCode(src).message)
             /\ code' = code
             /\ history' = history]_vars

\* C2: changes that follow one another within the debounce delay are coalesced:
\* the callback runs only when the delay has passed since the latest change, on
\* the current buffer, and once per burst; until it has run, a timer is armed
\* for the current buffer.
C2_Coalescing ==
    /\ [](evaluations <= 1)
    /\ []((phase # "initial" /\ evaluations = 0)
            => (debounce.timerId /\ debounce.lastArgs = <<code>>))
    /\ []((phase # "initial" /\ ~debounce.timerId) => evaluations = 1)
    /\ [][(debounce.timerId /\ ~debounce'.timerId)
            => /\ debounce.lastArgs = <<code>>
               /\ debounce.sinceCall >= DEBOUNCE_DELAY
               /\ evaluations = 0
               /\ evaluations' = 1]_vars

\* two changes fell into one window and a single evaluation of the last one ran
C2_Witness ==
    /\ lastOp = "evaluate"
    /\ burst = 2
    /\ evaluations = 1
    /\ code = SrcElement
    /\ Component = Fn(UserNode)

\* C3: once the debounced evaluation of a valid source yielding an element has
\* run, the preview displays that element and no error box, whatever happened
\* before.
C3_ValidResultDisplayed ==
    [][\A src \in Sources :
          (/\ phase = "mounted"
           /\ Invokes(src)
           /\ Succeeds(src)
           /\ isValidElement(ModuleResult(ExportsOf(src))))
          => Display' = ModuleResult(ExportsOf(src))]_vars

\* C4: while the host lives, a shown runtime error is never cleared; its
\* message changes only when a new error event is captured.
C4_RuntimeErrorSticky ==
    [][(phase = "mounted" /\ phase' = "mounted" /\ preview.error # NoError)
        => /\ preview'.boundary
           /\ preview'.error # NoError
           /\ Display' = RuntimeErrorBox(preview'.error.message)
           /\ (preview'.error # preview.error
                 => \/ \E e \in PageErrors : errorHandler(e)
                    \/ \E src \in Sources : Invokes(src) /\ evaluateCode(src).threw)]_vars

\* the runtime error is still shown after a later successful evaluation
C4_Witness ==
    /\ phase = "mounted"
    /\ lastOp = "evaluate"
    /\ code = SrcElement
    /\ Component = Fn(UserNode)
    /\ evaluations = 1
    /\ Shows("Runtime Error:")

C6_SaveAppends ==
    [][(handleSave /\ Trim(componentName) # <<>>)
        => /\ Len(history') = Len(history) + 1
           /\ \A j \in 1..Len(history) : history'[j] = history[j]
           /\ history'[Len(history')] = [name |-> componentName, code |-> code]
           /\ code' = code
           /\ debounce' = debounce
           /\ Component' = Component]_vars

\* a second entry of the same name was saved while an evaluation was pending
C6_Witness ==
    /\ lastOp = "save"
    /\ Len(history) = 2
    /\ history[1].name = history[2].name
    /\ history[1].code # history[2].code
    /\ history[2].code = code
    /\ debounce.timerId

\* C7: a delete at position i removes that entry only: entries before i keep
\* their place, entries after i move down by one, the buffer is untouched.
C7_DeleteRemovesOne ==
    [][\A i \in 1..MaxHistory :
          onDelete(i)
          => /\ Len(history') = Len(history) - 1
             /\ \A j \in 1..(i - 1) : history'[j] = history[j]
             /\ \A j \in i..(Len(history) - 1) : history'[j] = history[j + 1]
             /\ code' = code]_vars

\* an entry was deleted and two equal entries remain
C7_Witness ==
    /\ lastOp = "delete"
    /\ Len(history) = 2
    /\ history[1] = history[2]

\* C8 as stated: the viewport has the size of the selected preset, and after
\* Desktop is selected no fixed sizing is applied to it.
C8_DesktopUnsized ==
    /\ Cardinality({d \in Devices : mobileSize = MOBILE_SIZES[d]}) <= 1
    /\ selectValue \in Devices
         => /\ ViewportStyle.width = MOBILE_SIZES[selectValue].width
            /\ ViewportStyle.height = MOBILE_SIZES[selectValue].height
    /\ (selectValue = "" /\ lastOp = "select")
         => DOMAIN ViewportStyle \cap {"width", "height"} = {}

\* C8 amended: the viewport has the size of the selected preset; with Desktop
\* selected no width is set and the height is the default of the output area.
C8_DesktopDefaultHeight ==
    /\ Cardinality({d \in Devices : mobileSize = MOBILE_SIZES[d]}) <= 1
    /\ selectValue \in Devices
         => /\ ViewportStyle.width = MOBILE_SIZES[selectValue].width
            /\ ViewportStyle.height = MOBILE_SIZES[selectValue].height
    /\ selectValue = ""
         => /\ "width" \notin DOMAIN ViewportStyle
            /\ ViewportStyle.height = DefaultHeight

\* Desktop was selected again after a preset, in fullscreen
C8_Witness ==
    /\ lastOp = "select"
    /\ selectValue = ""
    /\ isFullscreen

\* C9: a result that is an element is installed as a function returning that
\* element; any other result is installed as it is; the result is the default
\* slot of the exports container when truthy, else the container, so the empty
\* buffer installs the empty container.
C9_Classification ==
    [][\A src \in Sources :
          (phase = "mounted" /\ Invokes(src) /\ Succeeds(src))
          => LET exports == ExportsOf(src)
                 result == IF "default" \in DOMAIN exports /\ Truthy(exports.default)
                           THEN exports.default ELSE exports
             IN  /\ result.t = "element"
                   => Component'.t = "function" /\ Component'.returns = result
                 /\ result.t # "element" => Component' = result
                 /\ src = SrcEmpty
                   => /\ Component' = [t |-> "object", default |-> Undefined]
                      /\ Component'.t # "function"]_vars

\* the empty buffer was evaluated and the empty container installed
C9_Witness ==
    /\ phase = "mounted"
    /\ lastOp = "evaluate"
    /\ code = SrcEmpty
    /\ Component = EmptyExports

\* C10: the host owns at most one live mount point, which exists exactly while
\* the host is mounted; every producer held while it exists has been rendered
\* to it; no render call reaches an unmounted mount point.
C10_MountPoint ==
    /\ Cardinality(preview.liveRoots) <= 1
    /\ preview.rootRef # NoRoot => preview.liveRoots = {preview.rootRef}
    /\ phase = "mounted" => preview.rootRef # NoRoot /\ preview.rendered = Component
    /\ phase # "mounted" => preview.liveRoots = {} /\ preview.rendered = Nothing
    /\ ~preview.staleRender

\* a pending evaluation ran after the host was removed
C10_Witness ==
    /\ phase = "removed"
    /\ lastOp = "evaluate"
    /\ Succeeds(code)
    /\ preview.created = 2

====
